---- MODULE Spec2Model ----
(***************************************************************************)
(* A model of DensePacking/model/ppo/ppo.py: the PPO agent's action        *)
(* selection (act), advantage estimator (get_gaes), advantage              *)
(* normalisation and the training loop (train).                            *)
(*                                                                         *)
(* Numbers are integers.  The policy network and the environment are       *)
(* black boxes: each call yields some output from a small set.  A          *)
(* log-density is kept as the symbolic term [loc, scale, at] ("the         *)
(* log-density of Normal(loc, scale) at the point at"), a normalised       *)
(* advantage as the symbolic quotient [num, den, var] (num/den divided by  *)
(* the square root of var), or NaN where numpy divides zero by zero.       *)
(***************************************************************************)
EXTENDS Integers, Sequences, FiniteSets, TLC

\* ---------------------------------------------------------------- bounds
MaxEpochs == 2
MaxSteps == 2
MaxUpdates == 2
MaxSaveFreq == 2
MaxLen == 3
MaxDim == 2

\* What the black boxes may return.
Rewards == {0, 1}
Values == {0, 1}
Means == {-1, 0, 1}
Noises == {-2, 0, 2}
Discounts == {0, 1, 2}
\* (low, high) of one action dimension.
Boxes == {<<-2, 2>>, <<0, 2>>, <<1, 1>>}
States == {0, 1}
\* The network outputs and sampling noise met while training.
TrainMeans == {0}
TrainNoises == {2}
TrainStates == {0}

\* numpy's 0/0: a quotient whose denominator is 0.
NaN == [num |-> 0, den |-> 0, var |-> 0]

VARIABLES
  pc,             \* position in train / in the called function
  max_epochs, max_steps, save_freq,   \* train's parameters
  n_updates, gamma, lam,              \* self.n_updates, self.gamma, self.lam
  low, high,      \* env.action_space.low / .high (one entry per dimension)
  env_rewards,    \* the rewards the environment may hand out
  version,        \* number of optimizer steps applied to the policy parameters
  episode, epoch, done, steps,
  i,              \* iterations of the update loop done in this episode
  obs, actions, log_probs, rewards, v_preds, next_v_preds, gaes,
  vers,           \* per record: the parameter version each part was computed under
  ver0,           \* the parameter version at the episode's reset
  saves,          \* the save_model calls so far, in order
  metrics,        \* the tf.summary.scalar calls so far, in order
  cur_state,      \* the observation act is called with
  test, ret       \* act's test flag and return value

vars == <<pc, max_epochs, max_steps, save_freq, n_updates, gamma, lam, low, high,
          env_rewards, version, episode, epoch, done, steps, i, obs, actions,
          log_probs, rewards, v_preds, next_v_preds, gaes, vers, ver0, saves,
          metrics, cur_state, test, ret>>

params == <<max_epochs, max_steps, save_freq, n_updates, gamma, lam, low, high,
            env_rewards>>
trajectory == <<obs, actions, log_probs, rewards, v_preds, vers>>

\* ---------------------------------------------------------------- helpers
RECURSIVE SeqSum(_)
SeqSum(s) == IF s = <<>> THEN 0 ELSE Head(s) + SeqSum(Tail(s))

Min(a, b) == IF a < b THEN a ELSE b

SeqsOf(S, n) == [1..n -> S]

\* ---------------------------------------------------------------- __init__
action_dim == Len(high)
action_bound == [k \in 1..Len(high) |-> (high[k] - low[k]) \div 2]
action_shift == [k \in 1..Len(high) |-> (high[k] + low[k]) \div 2]

\* ---------------------------------------------------------------- act
no_clip(x, lo, hi) == x

\* tf.clip_by_value(x, lo, hi), element-wise.
clip_by_value(x, lo, hi) ==
  [k \in 1..Len(x) |-> IF x[k] < lo THEN lo ELSE IF x[k] > hi THEN hi ELSE x[k]]

\* dist.log_prob(a) for dist = Normal(loc = mu, scale = exp(policy_log_std)), the
\* scale being the one of parameter version ver; tf.reduce_sum adds the entries.
log_prob(mu, ver, a) == [k \in 1..Len(a) |-> [loc |-> mu[k], scale |-> ver, at |-> a[k]]]

\* act(state, test) under parameter version ver, the network answering (mu, value)
\* and the sampler drawing mu + noise.
act(ver, mu, value, noise, tst) ==
  LET sampled == IF tst THEN mu ELSE [k \in 1..Len(mu) |-> mu[k] + noise[k]]
      clipped == clip_by_value(sampled, -1, 1)
  IN  [action   |-> [k \in 1..Len(mu) |-> clipped[k] * action_bound[k] + action_shift[k]],
       value    |-> value,
       log_prob |-> log_prob(mu, ver, clipped),
       vers     |-> [act |-> ver, v |-> ver, lp |-> ver]]

\* ---------------------------------------------------------------- get_gaes
\* zip(rewards, next_v_preds, v_preds): as long as the shortest.
deltas_of(r, v, nv) ==
  [t \in 1..Min(Len(r), Min(Len(nv), Len(v))) |-> r[t] + gamma * nv[t] - v[t]]

forward_range(n) == [k \in 1..n |-> k]

\* reversed(range(n)), as 1-based indices: n, n-1, ..., 1.
reversed_range(n) == [k \in 1..n |-> n + 1 - k]

\* The in-place loop over the indices ts.
RECURSIVE gaes_loop(_, _)
gaes_loop(g, ts) ==
  IF ts = <<>> THEN g
  ELSE LET t == Head(ts)
       IN  gaes_loop([g EXCEPT ![t] = g[t] + lam * gamma * g[t + 1]], Tail(ts))

get_gaes(r, v, nv) ==
  LET deltas == deltas_of(r, v, nv)
  IN  IF deltas = <<>> THEN <<>> ELSE gaes_loop(deltas, reversed_range(Len(deltas) - 1))

\* ---------------------------------------------------------------- normalisation
\* T * (g[k] - mean(g)): the centred advantages, over the common denominator T.
uncentred(g) == [k \in 1..Len(g) |-> Len(g) * g[k]]

centred(g) == [k \in 1..Len(g) |-> Len(g) * g[k] - SeqSum(g)]

\* T^3 * g.std()^2: numpy's std centres on its own mean.
var_num(g) ==
  SeqSum([k \in 1..Len(g) |->
            (Len(g) * g[k] - SeqSum(g)) * (Len(g) * g[k] - SeqSum(g))])

\* (g - g.mean()) / g.std(): entry k is (num/den) / sqrt(var/den^3); numpy's 0/0 is NaN.
normalize(g) ==
  CHOOSE n \in { [k \in 1..Len(c) |->
                    IF q = 0 THEN NaN ELSE [num |-> c[k], den |-> Len(c), var |-> q]]
                 : c \in {centred(g)}, q \in {var_num(g)} } : TRUE

no_bootstrap(v) == v

\* v_preds[1:] + [0]
shift_v_preds(v) == IF v = <<>> THEN <<0>> ELSE Tail(v) \o <<0>>

\* ---------------------------------------------------------------- train
\* while epoch < max_epochs
outer_cond_late == epoch <= max_epochs

outer_cond == epoch < max_epochs

inner_cond_no_limit == ~done

\* while not done and steps < max_steps
inner_cond == ~done /\ steps < max_steps

LossNames == {"Loss/total_loss", "Loss/clipped_surr", "Loss/vf_loss", "Loss/entropy"}
EpisodeNames == {"Main/episode_reward", "Main/episode_steps"}

loss_metrics_by_episode(step) ==
  << [name |-> "Loss/total_loss", step |-> episode],
     [name |-> "Loss/clipped_surr", step |-> episode],
     [name |-> "Loss/vf_loss", step |-> episode],
     [name |-> "Loss/entropy", step |-> episode] >>

\* The four tf.summary.scalar calls of one update, tagged step (the loss tensors
\* themselves are not kept).
loss_metrics(step) ==
  << [name |-> "Loss/total_loss", step |-> step],
     [name |-> "Loss/clipped_surr", step |-> step],
     [name |-> "Loss/vf_loss", step |-> step],
     [name |-> "Loss/entropy", step |-> step] >>

\* The two per-episode scalars; the step count is kept as the scalar's data.
episode_metrics(ep, st) ==
  << [name |-> "Main/episode_reward", step |-> ep],
     [name |-> "Main/episode_steps", step |-> ep, data |-> st] >>

episode_file(ep) == [kind |-> "ppo_episode", n |-> ep]
final_file(ep) == [kind |-> "ppo_final_episode", n |-> ep]

checkpoints_freq_only(ep, st) ==
  IF ep % save_freq = 0 THEN <<episode_file(ep)>> ELSE <<>>

\* The save_model calls at the end of episode ep, which took st steps.
checkpoints(ep, st) ==
  (IF st >= max_steps THEN <<episode_file(ep)>> ELSE <<>>)
  \o (IF ep % save_freq = 0 THEN <<episode_file(ep)>> ELSE <<>>)

no_final_save(ep) == <<>>

\* The save_model call after the loop.
final_save(ep) == <<final_file(ep)>>

epoch_stuck(e) == e

\* epoch += 1
next_epoch(e) == e + 1

\* Lines 157-159: a new episode.
Reset ==
  /\ pc = "loop" /\ outer_cond
  /\ done' = FALSE /\ steps' = 0
  /\ \E s \in TrainStates : cur_state' = s
  /\ obs' = <<>> /\ actions' = <<>> /\ log_probs' = <<>> /\ rewards' = <<>>
  /\ v_preds' = <<>> /\ next_v_preds' = <<>> /\ vers' = <<>>
  /\ ver0' = version
  /\ pc' = "step"
  /\ UNCHANGED <<params, version, episode, epoch, i, gaes, saves, metrics, test, ret>>

\* Lines 162-173: one step of the episode, leaving the parameters at newver.
StepWith(newver) ==
  /\ pc = "step" /\ inner_cond
  /\ \E mu \in SeqsOf(TrainMeans, action_dim), noise \in SeqsOf(TrainNoises, action_dim),
        value \in Values, reward \in env_rewards, d \in BOOLEAN, next_state \in TrainStates :
       LET a == act(version, mu, value, noise, FALSE)
       IN  /\ rewards' = Append(rewards, reward)
           /\ v_preds' = Append(v_preds, a.value)
           /\ obs' = Append(obs, cur_state)
           /\ actions' = Append(actions, a.action)
           /\ log_probs' = Append(log_probs, a.log_prob)
           /\ vers' = Append(vers, a.vers)
           /\ done' = d
           /\ cur_state' = next_state
  /\ steps' = steps + 1
  /\ version' = newver
  /\ UNCHANGED <<pc, params, episode, epoch, i, next_v_preds, gaes, ver0, saves, metrics,
                 test, ret>>

StepOnline == StepWith(version + 1)

Step == StepWith(version)

\* Lines 175-179: the episode is over; next_v_preds and the normalised advantages.
Advantages ==
  /\ pc = "step" /\ ~inner_cond
  /\ \E nv \in {shift_v_preds(v_preds)} :
       \E g \in {get_gaes(rewards, v_preds, nv)} :
          /\ next_v_preds' = nv
          /\ gaes' = normalize(g)
  /\ i' = 0
  /\ pc' = "learn"
  /\ UNCHANGED <<params, trajectory, version, episode, epoch, done, steps, ver0, saves,
                 metrics, cur_state, test, ret>>

\* Lines 182-197: one of the n_updates updates (learn applies one optimizer step).
Learn ==
  /\ pc = "learn" /\ i < n_updates
  /\ version' = version + 1
  /\ metrics' = metrics \o loss_metrics(epoch)
  /\ epoch' = next_epoch(epoch)
  /\ i' = i + 1
  /\ UNCHANGED <<pc, params, trajectory, next_v_preds, gaes, episode, done, steps, ver0,
                 saves, cur_state, test, ret>>

\* Lines 199-215: the episode's metrics and checkpoints.
EndEpisode ==
  /\ pc = "learn" /\ i >= n_updates
  /\ episode' = episode + 1
  /\ metrics' = metrics \o episode_metrics(episode + 1, steps)
  /\ saves' = saves \o checkpoints(episode + 1, steps)
  /\ pc' = "loop"
  /\ UNCHANGED <<params, trajectory, next_v_preds, gaes, version, epoch, done, steps, i,
                 ver0, cur_state, test, ret>>

\* Line 217: the loop is left.
Exit ==
  /\ pc = "loop" /\ ~outer_cond
  /\ saves' = saves \o final_save(episode)
  /\ pc' = "done"
  /\ UNCHANGED <<params, trajectory, next_v_preds, gaes, version, episode, epoch, done,
                 steps, i, ver0, metrics, cur_state, test, ret>>

\* The state when train is entered (line 154), the rest not yet bound.
TrainEntry ==
  /\ pc = "loop"
  /\ version = 0 /\ episode = 0 /\ epoch = 0 /\ done = FALSE /\ steps = 0 /\ i = 0
  /\ obs = <<>> /\ actions = <<>> /\ log_probs = <<>> /\ rewards = <<>>
  /\ v_preds = <<>> /\ next_v_preds = <<>> /\ gaes = <<>> /\ vers = <<>>
  /\ ver0 = 0 /\ saves = <<>> /\ metrics = <<>>
  /\ cur_state = 0 /\ test = FALSE /\ ret = <<>>

Init ==
  /\ max_epochs \in 0..MaxEpochs
  /\ max_steps \in 1..MaxSteps
  /\ save_freq \in 1..MaxSaveFreq
  /\ n_updates \in 1..MaxUpdates
  /\ gamma = 1 /\ lam = 1
  /\ low = <<-2>> /\ high = <<2>>
  /\ env_rewards = Rewards
  /\ TrainEntry

Next == Reset \/ Step \/ Advantages \/ Learn \/ EndEpisode \/ Exit

Spec == Init /\ [][Next]_vars

\* train is sequential code: whatever step is next is taken.
FairSpec == Init /\ [][Next]_vars /\ WF_vars(Next)

\* The end-to-end run: max_epochs = 1, max_steps = 5, an environment with one fixed reward.
InitE2E ==
  /\ max_epochs = 1
  /\ max_steps = 5
  /\ save_freq \in 1..MaxSaveFreq
  /\ n_updates \in 1..MaxUpdates
  /\ gamma = 1 /\ lam = 1
  /\ low = <<-2>> /\ high = <<2>>
  /\ \E r \in Rewards : env_rewards = {r}
  /\ TrainEntry

SpecE2E == InitE2E /\ [][Next]_vars /\ WF_vars(Next)

\* ---------------------------------------------------------------- get_gaes alone
\* Everything train owns, at rest.
Idle ==
  /\ max_epochs = 0 /\ max_steps = 1 /\ save_freq = 1 /\ n_updates = 1
  /\ env_rewards = {}
  /\ version = 0 /\ episode = 0 /\ epoch = 0 /\ done = FALSE /\ steps = 0 /\ i = 0
  /\ obs = <<>> /\ actions = <<>> /\ log_probs = <<>> /\ vers = <<>>
  /\ ver0 = 0 /\ saves = <<>> /\ metrics = <<>>
  /\ test = FALSE /\ ret = <<>>

InitGae ==
  /\ Idle
  /\ pc = "gae_call"
  /\ low = <<-2>> /\ high = <<2>>
  /\ cur_state = 0
  /\ gamma \in Discounts /\ lam \in Discounts
  /\ \E T \in 1..MaxLen :
       /\ rewards \in SeqsOf(Rewards, T)
       /\ v_preds \in SeqsOf(Values, T)
       /\ next_v_preds \in SeqsOf(Values, T)
  /\ gaes = <<>>

\* Line 176.
GaeCall ==
  /\ pc = "gae_call"
  /\ gaes' = get_gaes(rewards, v_preds, next_v_preds)
  /\ pc' = "gae_ret"
  /\ UNCHANGED <<params, trajectory, next_v_preds, version, episode, epoch, done, steps,
                 i, ver0, saves, metrics, cur_state, test, ret>>

NextGae == GaeCall

SpecGae == InitGae /\ [][NextGae]_vars

\* ---------------------------------------------------------------- act alone
InitAct ==
  /\ Idle
  /\ pc = "act_call"
  /\ gamma = 1 /\ lam = 1
  /\ rewards = <<>> /\ v_preds = <<>> /\ next_v_preds = <<>> /\ gaes = <<>>
  /\ \E d \in 1..MaxDim : \E box \in SeqsOf(Boxes, d) :
       /\ low = [k \in 1..d |-> box[k][1]]
       /\ high = [k \in 1..d |-> box[k][2]]
  /\ cur_state \in States

\* Lines 91-101, called as act(cur_state, tst).
ActCall ==
  /\ pc = "act_call"
  /\ \E tst \in BOOLEAN, mu \in SeqsOf(Means, action_dim),
        noise \in SeqsOf(Noises, action_dim), value \in Values :
       /\ test' = tst
       /\ ret' = act(version, mu, value, noise, tst)
  /\ pc' = "act_ret"
  /\ UNCHANGED <<params, trajectory, next_v_preds, gaes, version, episode, epoch, done,
                 steps, i, ver0, saves, metrics, cur_state>>

NextAct == ActCall

SpecAct == InitAct /\ [][NextAct]_vars

\* ================================================================ claims
Range(q) == {q[k] : k \in 1..Len(q)}

\* The step tags of the scalars called name, in emission order.
StepsOf(name) ==
  LET sel == SelectSeq(metrics, LAMBDA m : m.name = name)
  IN  [k \in 1..Len(sel) |-> sel[k].step]

\* The number of updates whose four loss scalars are all emitted.
LossGroups ==
  Cardinality({k \in 0..Len(metrics) :
                 \A name \in LossNames : [name |-> name, step |-> k] \in Range(metrics)})

FinalSaves == SelectSeq(saves, LAMBDA f : f.kind = "ppo_final_episode")

\* The steps episode N took, read back from its Main/episode_steps scalar.
EpisodeSteps(N) ==
  (CHOOSE m \in Range(metrics) : m.name = "Main/episode_steps" /\ m.step = N).data

CeilDiv(a, b) == (a + b - 1) \div b

\* ---- C1
\* C1 as stated: when the run with max_epochs = 1, max_steps = 5 on a fixed-reward
\* environment is over, save_model has been called exactly once and at least
\* n_updates groups of loss scalars were emitted (read in its favour: for a
\* save_freq that does not divide the episode number 1).
C1_ExactlyOneSave ==
  (pc = "done" /\ max_epochs = 1 /\ max_steps = 5 /\ save_freq # 1)
    => (Len(saves) = 1 /\ LossGroups >= n_updates)

\* C1, amended: the run terminates; when it is over the final save has been made
\* exactly once, as the last call, at least n_updates groups of loss scalars were
\* emitted, and save_model was called once more if the episode reached max_steps
\* and once more if save_freq divides 1, so exactly once overall only when the
\* episode ended by done before step 5 and save_freq is not 1.
C1_EndToEnd ==
  /\ <>(pc = "done")
  /\ []((pc = "done" /\ max_epochs = 1 /\ max_steps = 5) =>
          /\ Len(FinalSaves) = 1
          /\ saves[Len(saves)] = final_file(1)
          /\ LossGroups >= n_updates
          /\ Len(saves) = 1 + (IF steps >= max_steps THEN 1 ELSE 0)
                            + (IF 1 % save_freq = 0 THEN 1 ELSE 0)
          /\ (Len(saves) = 1 <=> (steps < 5 /\ save_freq # 1)))

C1_Witness ==
  pc = "done" /\ max_epochs = 1 /\ max_steps = 5 /\ steps = 5 /\ ~done
  /\ save_freq # 1 /\ Len(saves) = 2

\* ---- C2
\* C2: train eventually leaves its outer loop and makes the final save, and no
\* episode takes more than max_steps steps.
C2_Terminates ==
  /\ <>(pc = "done" /\ Len(FinalSaves) = 1)
  /\ [](steps <= max_steps)
  /\ []((pc \in {"step", "learn"}) => epoch - (IF pc = "learn" THEN i ELSE 0) < max_epochs)

C2_Witness ==
  pc = "done" /\ Len(FinalSaves) = 1 /\ max_epochs = MaxEpochs /\ steps = max_steps
  /\ ~done /\ max_steps > 1

\* ---- C3
\* C3: every completed episode N has a ppo_episode{N} save if and only if it took
\* max_steps steps or N is a multiple of save_freq; no other episode file exists.
C3_CheckpointRule ==
  /\ \A N \in 1..episode :
       (episode_file(N) \in Range(saves))
         <=> (EpisodeSteps(N) >= max_steps \/ N % save_freq = 0)
  /\ \A f \in Range(saves) : f.kind = "ppo_episode" => f.n \in 1..episode

C3_Witness ==
  /\ episode >= 2 /\ pc = "loop"
  /\ \E N \in 1..episode :
       EpisodeSteps(N) < max_steps /\ N % save_freq # 0 /\ episode_file(N) \notin Range(saves)
  /\ \E N \in 1..episode : EpisodeSteps(N) < max_steps /\ episode_file(N) \in Range(saves)

\* ---- C4
\* C4: get_gaes returns a list as long as its inputs with gae[T] = delta[T] and
\* gae[t] = delta[t] + lam*gamma*gae[t+1] below; with gamma = lam = 1 and all
\* value predictions 0, gae[t] is the sum of rewards[t..T]; the inputs are not
\* modified by the call.
C4_Recurrence ==
  /\ [](pc = "gae_ret" =>
          LET T == Len(rewards)
              delta == [t \in 1..T |-> rewards[t] + gamma * next_v_preds[t] - v_preds[t]]
          IN  /\ Len(gaes) = T
              /\ gaes[T] = delta[T]
              /\ \A t \in 1..(T - 1) : gaes[t] = delta[t] + lam * gamma * gaes[t + 1]
              /\ (gamma = 1 /\ lam = 1 /\ Range(v_preds) = {0} /\ Range(next_v_preds) = {0})
                   => \A t \in 1..T : gaes[t] = SeqSum(SubSeq(rewards, t, T)))
  /\ [][pc = "gae_call" => UNCHANGED <<rewards, v_preds, next_v_preds>>]_vars

C4_Witness ==
  pc = "gae_ret" /\ gamma = 1 /\ lam = 1 /\ rewards = <<1, 1, 1>>
  /\ v_preds = <<0, 0, 0>> /\ next_v_preds = <<0, 0, 0>> /\ gaes = <<3, 2, 1>>

\* ---- C5
\* C5: the parameters do not change between an episode's reset and the end of its
\* STEP loop, every record of the trajectory is computed (action, value and
\* log-prob alike) under the parameter version of the reset, and the parameters
\* change only in the LEARN calls that follow, once per call.
C5_OnePolicyPerTrajectory ==
  /\ pc = "step" => version = ver0
  /\ pc = "learn" => version = ver0 + i
  /\ Len(vers) = Len(log_probs)
  /\ \A t \in 1..Len(vers) :
       /\ vers[t] = [act |-> ver0, v |-> ver0, lp |-> ver0]
       /\ \A k \in 1..Len(log_probs[t]) : log_probs[t][k].scale = ver0

C5_Witness ==
  pc = "learn" /\ i = n_updates /\ ver0 > 0 /\ Len(vers) >= 2 /\ version > ver0

\* ---- C6
\* C6: when the LEARN loop runs the six arrays and the advantages all have length
\* steps >= 1, and next_v_preds is v_preds shifted left by one with 0 appended.
C6_ParallelArrays ==
  pc = "learn" =>
    /\ steps >= 1
    /\ Len(obs) = steps /\ Len(actions) = steps /\ Len(log_probs) = steps
    /\ Len(rewards) = steps /\ Len(v_preds) = steps /\ Len(next_v_preds) = steps
    /\ Len(gaes) = steps
    /\ \A t \in 1..(steps - 1) : next_v_preds[t] = v_preds[t + 1]
    /\ next_v_preds[steps] = 0

C6_Witness ==
  pc = "learn" /\ steps = 2 /\ ~done /\ v_preds = <<0, 1>> /\ next_v_preds = <<1, 0>>

\* ---- C7
\* C7: every component of act's rescaled action lies within
\* [action_shift - action_bound, action_shift + action_bound] = [low, high], and
\* the log-prob is the log-density at the clipped normalised action, the point of
\* [-1, 1] the returned action is the rescaling of.
C7_ActionBounds ==
  pc = "act_ret" =>
    /\ Len(ret.action) = action_dim /\ Len(ret.log_prob) = action_dim
    /\ \A k \in 1..action_dim :
         /\ action_shift[k] - action_bound[k] <= ret.action[k]
         /\ ret.action[k] <= action_shift[k] + action_bound[k]
         /\ low[k] <= ret.action[k] /\ ret.action[k] <= high[k]
         /\ ret.log_prob[k].at \in -1..1
         /\ ret.log_prob[k].at * action_bound[k] + action_shift[k] = ret.action[k]

C7_Witness ==
  pc = "act_ret" /\ ~test /\ action_dim = 2 /\ low = <<-2, 0>> /\ high = <<2, 2>>
  /\ ret.action = <<2, 0>> /\ ret.log_prob[1].loc = 0 /\ ret.log_prob[2].loc = 1

\* ---- C8
\* C8: the k-th update's four loss scalars (k from 0) are tagged k and the N-th
\* episode's two scalars (N from 1) are tagged N, so each name's step tags increase.
C8_StepTags ==
  /\ \A name \in LossNames :
       /\ Len(StepsOf(name)) \in {epoch, epoch + 1}
       /\ \A k \in 1..Len(StepsOf(name)) : StepsOf(name)[k] = k - 1
  /\ \A name \in EpisodeNames :
       /\ Len(StepsOf(name)) = episode
       /\ \A k \in 1..episode : StepsOf(name)[k] = k
  /\ \A name \in LossNames \cup EpisodeNames :
       \A j, k \in 1..Len(StepsOf(name)) : j < k => StepsOf(name)[j] < StepsOf(name)[k]
  /\ \A m \in Range(metrics) : m.name \in LossNames \cup EpisodeNames

C8_Witness ==
  pc = "loop" /\ episode = 2 /\ epoch = 2 /\ Len(metrics) = 12

\* ---- C9
\* C9 as stated: an episode of length >= 2 with non-constant rewards has
\* normalised advantages of mean 0 and standard deviation 1.
C9_NonConstantRewards ==
  (pc = "learn" /\ Len(rewards) >= 2 /\ Cardinality(Range(rewards)) > 1)
    => /\ NaN \notin Range(gaes)
       /\ SeqSum([k \in 1..Len(gaes) |-> gaes[k].num]) = 0
       /\ \A k \in 1..Len(gaes) :
            SeqSum([j \in 1..Len(gaes) |-> gaes[j].num * gaes[j].num]) = gaes[k].var

\* C9, amended: the normalised advantages handed to learn have mean 0 and standard
\* deviation 1 exactly when the episode's raw advantages are not all equal (their
\* standard deviation is not 0); when they are all equal, which non-constant
\* rewards do not exclude, every normalised advantage is NaN.
C9_NonConstantAdvantages ==
  pc = "learn" =>
    LET raw == get_gaes(rewards, v_preds, next_v_preds)
    IN  /\ Len(gaes) = Len(raw)
        /\ Cardinality(Range(raw)) > 1 =>
             /\ NaN \notin Range(gaes)
             /\ SeqSum([k \in 1..Len(gaes) |-> gaes[k].num]) = 0
             /\ \A k \in 1..Len(gaes) :
                  /\ gaes[k].den = Len(raw)
                  /\ gaes[k].num = gaes[k].den * raw[k] - SeqSum(raw)
                  /\ SeqSum([j \in 1..Len(gaes) |-> gaes[j].num * gaes[j].num]) = gaes[k].var
        /\ Cardinality(Range(raw)) = 1 => Range(gaes) = {NaN}

C9_Witness ==
  pc = "learn" /\ Len(rewards) = 2 /\ Cardinality(Range(rewards)) > 1
  /\ NaN \notin Range(gaes) /\ gaes[1].num < 0

\* ---- C10
\* C10: at every episode boundary epoch = n_updates * episode; at exit
\* max_epochs <= epoch < max_epochs + n_updates and the final checkpoint, the last
\* save, is named with ceil(max_epochs / n_updates), the number of completed episodes.
C10_EpochAccounting ==
  /\ pc \in {"loop", "step", "done"} => epoch = n_updates * episode
  /\ pc = "learn" => epoch = n_updates * episode + i /\ i <= n_updates
  /\ pc = "done" =>
       /\ max_epochs <= epoch /\ epoch < max_epochs + n_updates
       /\ episode = CeilDiv(max_epochs, n_updates)
       /\ FinalSaves = <<final_file(CeilDiv(max_epochs, n_updates))>>
       /\ saves[Len(saves)] = final_file(episode)

C10_Witness ==
  pc = "done" /\ max_epochs = 1 /\ n_updates = 2 /\ epoch = 2 /\ episode = 1

====
